---- MODULE Spec2Model ----
(***************************************************************************)
(* UAN Automator: the template report engine (GestorExcel) and the PDF     *)
(* assembly pipeline, in the console variant (certificados_uan_cm.py) and  *)
(* the web variant (app.py).                                               *)
(*                                                                         *)
(* Python strings are sequences of one-character strings, so that strip,   *)
(* lower, upper, "in" and startswith are computed and not assumed.         *)
(* A worksheet is a sparse map from <<row, column>> to a cell value, the    *)
(* set of positions that openpyxl loads as MergedCell (the members of a    *)
(* merged region other than its top-left cell) and the set of the top-left *)
(* cells of the merged regions, which are plain cells and hold the value.  *)
(***************************************************************************)
EXTENDS Integers, Sequences, FiniteSets, TLC

VARIABLES
    variant,        \* "console" (certificados_uan_cm.py) or "web" (app.py)
    tpl,            \* which pair of template files is installed
    pc,             \* position of the program
    gestor,         \* GestorExcel.gestor
    gestor_sidebar, \* web: gestor_nombre, the text of "Nombre del Gestor"
    ws_machote,     \* GestorExcel.ws_machote (in memory)
    ws_gestores,    \* GestorExcel.ws_gestores (in memory)
    row_m,          \* GestorExcel.row_m
    row_g,          \* GestorExcel.row_g
    row_m0,         \* ghost: row_m right after the engine was initialised
    row_g0,         \* ghost: row_g right after the engine was initialised
    out_machote,    \* OUTPUT_MACHOTE on disk / last machote download buffer
    out_gestores,   \* OUTPUT_GESTORES on disk / last gestores download buffer
    al,             \* the Alumno being processed
    pdfs_alumno,    \* main: pdfs_alumno
    todos,          \* main: todos_los_pdfs_generados
    fs,             \* files under ALUMNOS_UAN: path -> content
    ultimo,         \* ghost: what the last step did
    hist            \* ghost: rows and archives produced by earlier steps

vars == <<variant, tpl, pc, gestor, gestor_sidebar,
          ws_machote, ws_gestores, row_m, row_g,
          row_m0, row_g0, out_machote, out_gestores, al, pdfs_alumno, todos,
          fs, ultimo, hist>>

-----------------------------------------------------------------------------
(* Python strings *)

MAYUS == <<"A","B","C","D","E","F","G","H","I","J","K","L","M",
           "N","O","P","Q","R","S","T","U","V","W","X","Y","Z">>
MINUS == <<"a","b","c","d","e","f","g","h","i","j","k","l","m",
           "n","o","p","q","r","s","t","u","v","w","x","y","z">>

LowerCh(c) == IF \E i \in DOMAIN MAYUS : MAYUS[i] = c
              THEN MINUS[CHOOSE i \in DOMAIN MAYUS : MAYUS[i] = c] ELSE c
UpperCh(c) == IF \E i \in DOMAIN MINUS : MINUS[i] = c
              THEN MAYUS[CHOOSE i \in DOMAIN MINUS : MINUS[i] = c] ELSE c

\* str.lower(), str.upper()
Lower(s) == [i \in DOMAIN s |-> LowerCh(s[i])]
Upper(s) == [i \in DOMAIN s |-> UpperCh(s[i])]

\* str.strip(): drops leading and trailing blanks
RECURSIVE LStrip(_)
LStrip(s) == IF s # << >> /\ Head(s) = " " THEN LStrip(Tail(s)) ELSE s
RECURSIVE RStrip(_)
RStrip(s) == IF s # << >> /\ s[Len(s)] = " "
             THEN RStrip(SubSeq(s, 1, Len(s) - 1)) ELSE s
Strip(s) == RStrip(LStrip(s))

\* str.startswith(p), and "sub in s"
StartsWith(s, p) == Len(p) <= Len(s) /\ SubSeq(s, 1, Len(p)) = p
Contains(sub, s) ==
    \E i \in 1..(Len(s) - Len(sub) + 1) : SubSeq(s, i, i + Len(sub) - 1) = sub

\* str.replace(' ', '_')
Replace_(s) == [i \in DOMAIN s |-> IF s[i] = " " THEN "_" ELSE s[i]]

\* The literals of the source
KW_EJEMPLO == <<"E","j","e","m","p","l","o">>
KW_ejemplo == Lower(KW_EJEMPLO)
KW_IMPORTANTE ==
    <<"E","S"," ","M","U","Y"," ","I","M","P","O","R","T","A","N","T","E">>
KW_PERSONA == <<"p","e","r","s","o","n","a"," ","q","u","e"," ",
                "s","o","l","i","c","i","t","a">>
PRE_GESTOR == <<"G","e","s","t","o","r",":"," ">>
EQUIS == <<"X">>
VACIO == << >>

-----------------------------------------------------------------------------
(* Cell values: None, str, int, float (a float is kept in halves) *)

None == [none |-> TRUE]
Str(s) == [str |-> s]
Num(i) == [int |-> i]
Flt(h) == [half |-> h]

IsStr(v) == DOMAIN v = {"str"}
IsInt(v) == DOMAIN v = {"int"}
IsFlt(v) == DOMAIN v = {"half"}

\* Python truthiness of a cell value: None, "", 0 and 0.0 are falsy
Truthy(v) == CASE v = None -> FALSE
               [] IsStr(v) -> v.str # << >>
               [] IsInt(v) -> v.int # 0
               [] IsFlt(v) -> v.half # 0

\* int(x) of a float truncates toward zero
Trunc(h) == IF h >= 0 THEN h \div 2 ELSE -((-h) \div 2)
IntOf(v) == IF IsInt(v) THEN v.int ELSE Trunc(v.half)

-----------------------------------------------------------------------------
(* Worksheets *)

Sheet(cells, merged, anchors) ==
    [cells |-> cells, merged |-> merged, anchors |-> anchors]

\* ws.cell(row=r, column=c).value; a MergedCell reads as None
Cell(ws, r, c) == IF <<r, c>> \in DOMAIN ws.cells THEN ws.cells[<<r, c>>] ELSE None

\* isinstance(ws.cell(row=r, column=c), MergedCell)
IsMerged(ws, r, c) == <<r, c>> \in ws.merged

\* cell.value = v on a plain cell
SetCell(ws, r, c, v) ==
    IF v = None
    THEN [ws EXCEPT !.cells = [k \in (DOMAIN ws.cells) \ {<<r, c>>} |-> ws.cells[k]]]
    ELSE [ws EXCEPT !.cells = [k \in (DOMAIN ws.cells) \cup {<<r, c>>} |->
                                 IF k = <<r, c>> THEN v ELSE ws.cells[k]]]

\* ws.max_row / ws.max_column: the extent of the cells the sheet holds
MaxOf(S) == IF S = {} THEN 1 ELSE CHOOSE x \in S : \A y \in S : y <= x
MinOf(S) == CHOOSE x \in S : \A y \in S : x <= y
MaxRow(ws) == MaxOf({k[1] : k \in (DOMAIN ws.cells) \cup ws.merged})
MaxColumn(ws) == MaxOf({k[2] : k \in (DOMAIN ws.cells) \cup ws.merged})

\* for r in rows: for c in cols: if not isinstance(cell, MergedCell): cell.value = None
NullBlock(ws, rows, cols) ==
    [ws EXCEPT !.cells =
        [k \in {k \in DOMAIN ws.cells :
                  ~(k[1] \in rows /\ k[2] \in cols /\ ~IsMerged(ws, k[1], k[2]))}
           |-> ws.cells[k]]]

\* "for i, val in enumerate(row_data, 1): ws.cell(row=r, column=i).value = val".
\* Assigning the value of a MergedCell raises AttributeError: the columns before
\* the first MergedCell of the row are written, the rest are not.
WriteRow(ws, r, data) ==
    LET bad == {i \in 1..Len(data) : IsMerged(ws, r, i)}
        n == IF bad = {} THEN Len(data) ELSE MinOf(bad) - 1
        gone == {<<r, i>> : i \in {j \in 1..n : data[j] = None}}
        put == {<<r, i>> : i \in {j \in 1..n : data[j] # None}}
    IN [ws |-> [ws EXCEPT !.cells =
                  [k \in ((DOMAIN ws.cells) \ gone) \cup put |->
                      IF k \in put THEN data[k[2]] ELSE ws.cells[k]]],
        ok |-> bad = {}]

-----------------------------------------------------------------------------
(* Program constants of GestorExcel *)

MACHOTE_START == 10
MACHOTE_COL_CHECK == 1
GESTORES_START == 3
GESTORES_COL_CHECK == 2
FILA_GESTOR == 29
COL_GESTOR == 2
SCAN_END_CONSOLE == 80
CLEAN_END_CONSOLE == 20
MAXCOL_M_CONSOLE == 18
MAXCOL_G_CONSOLE == 16
FIRMA_ROW_END_CONSOLE == 60
FIRMA_COL_END_CONSOLE == 15
CLEAN_END_WEB == 25
COL_END_M_WEB == 18
COL_END_G_WEB == 16
LIMIT_ROW_WEB == 30

\* The first of the rows whose column-1 value satisfies the test; 0 when none
\* (start_clean = None, start_row = None).
FirstRow(hits) == IF hits = {} THEN 0 ELSE MinOf(hits)

\* console: val and isinstance(val, str) and keyword in val
TestConsole(keyword, v) == Truthy(v) /\ IsStr(v) /\ Contains(keyword, v.str)
\* web: isinstance(v, str) and v.strip().lower().startswith("ejemplo")
TestMachoteWeb(v) == IsStr(v) /\ StartsWith(Lower(Strip(v.str)), KW_ejemplo)
\* web: isinstance(v, str) and "ES MUY IMPORTANTE" in v.upper()
TestGestoresWeb(v) == IsStr(v) /\ Contains(KW_IMPORTANTE, Upper(v.str))

\* console: GestorExcel._limpiar_plantilla(ws, keyword)
MarcaConsole(ws, keyword) ==
    FirstRow({r \in 1..(SCAN_END_CONSOLE - 1) : TestConsole(keyword, Cell(ws, r, 1))})
VentanaConsole(ws, keyword) ==
    LET start_clean == MarcaConsole(ws, keyword)
    IN IF start_clean = 0 THEN [rows |-> {}, cols |-> {}]
       ELSE IF keyword = KW_EJEMPLO
            THEN [rows |-> (start_clean + 1)..(start_clean + CLEAN_END_CONSOLE - 1),
                  cols |-> 1..MAXCOL_M_CONSOLE]
            ELSE [rows |-> GESTORES_START..(start_clean - 1),
                  cols |-> 1..MAXCOL_G_CONSOLE]
_limpiar_plantilla(ws, keyword) ==
    LET v == VentanaConsole(ws, keyword) IN NullBlock(ws, v.rows, v.cols)

\* Mutant: the web clears one row more after the marker
VentanaMachoteWeb_unaMas(ws) ==
    LET start_row == FirstRow({r \in 1..MaxRow(ws) : TestMachoteWeb(Cell(ws, r, 1))})
    IN IF start_row = 0 THEN [rows |-> {}, cols |-> {}]
       ELSE [rows |-> (start_row + 1)..(start_row + CLEAN_END_WEB),
             cols |-> 1..(COL_END_M_WEB - 1)]

\* web: GestorExcel._limpiar_machote(ws)
MarcaMachoteWeb(ws) ==
    FirstRow({r \in 1..MaxRow(ws) : TestMachoteWeb(Cell(ws, r, 1))})
VentanaMachoteWeb(ws) ==
    LET start_row == MarcaMachoteWeb(ws)
    IN IF start_row = 0 THEN [rows |-> {}, cols |-> {}]
       ELSE [rows |-> (start_row + 1)..(start_row + CLEAN_END_WEB - 1),
             cols |-> 1..(COL_END_M_WEB - 1)]
_limpiar_machote(ws) ==
    LET v == VentanaMachoteWeb(ws) IN NullBlock(ws, v.rows, v.cols)

\* web: GestorExcel._limpiar_gestores(ws)
MarcaGestoresWeb(ws) ==
    FirstRow({r \in 1..MaxRow(ws) : TestGestoresWeb(Cell(ws, r, 1))})
VentanaGestoresWeb(ws) ==
    LET found == MarcaGestoresWeb(ws)
        limit_row == IF found = 0 THEN LIMIT_ROW_WEB ELSE found
    IN [rows |-> GESTORES_START..(limit_row - 1), cols |-> 1..(COL_END_G_WEB - 1)]
_limpiar_gestores(ws) ==
    LET v == VentanaGestoresWeb(ws) IN NullBlock(ws, v.rows, v.cols)

\* GestorExcel._find_next_row: console stops at a falsy value,
\* web at None or ""
NotBlank(v) == v # None /\ v # Str(VACIO)
RECURSIVE FindFrom(_, _, _, _)
FindFrom(ws, col_check, r, web) ==
    LET v == Cell(ws, r, col_check)
    IN IF (IF web THEN NotBlank(v) ELSE Truthy(v))
       THEN FindFrom(ws, col_check, r + 1, web) ELSE r
_find_next_row(ws, col_check, start, web) == FindFrom(ws, col_check, start, web)

\* GestorExcel._firmar_gestores: the first cell, row by row, whose text holds
\* "persona que solicita" becomes "Gestor: {gestor}"
TestFirma(v, web) ==
    (web \/ Truthy(v)) /\ IsStr(v) /\ Contains(KW_PERSONA, Lower(v.str))
_firmar_gestores(ws, g, web) ==
    LET rows == IF web THEN 1..MaxRow(ws) ELSE 1..(FIRMA_ROW_END_CONSOLE - 1)
        cols == IF web THEN 1..MaxColumn(ws) ELSE 1..(FIRMA_COL_END_CONSOLE - 1)
        hits == {k \in DOMAIN ws.cells :
                    k[1] \in rows /\ k[2] \in cols /\ TestFirma(ws.cells[k], web)}
    IN IF hits = {} THEN ws
       ELSE LET r == MinOf({k[1] : k \in hits})
                c == MinOf({k[2] : k \in {h \in hits : h[1] = r}})
            IN SetCell(ws, r, c, Str(PRE_GESTOR \o g))

-----------------------------------------------------------------------------
(* The two template files, "MACHOTE DE TRAMITES.xlsx" (sheet "formato         *)
(* corregido") and "FORMATO PARA LOS GESTORES.xlsx" (sheet "TITULOS"). They   *)
(* are inputs of the program: the layouts below are the ones the code's fixed *)
(* rows and keywords presuppose, with the variations the scans distinguish.   *)

T_NO == <<"N","o">>
T_EJ == <<"E","J">>
T_OBS == <<"o","b","s">>
T_FIRMA == <<"F","i","r","m","a">>
T_NOTA == <<"N","o","t","a">>
T_CURP == <<"C","U","R","P">>
T_SOLICITA == <<"P">> \o Tail(KW_PERSONA)

\* Row of the notice "ES MUY IMPORTANTE" in the gestores template
FilaAviso == 4

\* machote: kind "std" has the marker "Ejemplo" in A9, "may" has "EJEMPLO",
\* "sin" has no marker and numbers its second example 2.5. Rows 10 and 11
\* hold example records; A29 labels the
\* operator cell B29; B31:D31 is a merged signature line; A1:C1 a merged title.
TplMachote(kind) ==
    Sheet(   <<1, 1>> :> Str(T_NOTA)
          @@ <<8, 1>> :> Str(T_NO)
          @@ <<9, 1>> :> Str(CASE kind = "std" -> KW_EJEMPLO
                               [] kind = "may" -> Upper(KW_EJEMPLO)
                               [] OTHER -> T_NO)
          @@ <<10, 1>> :> Num(1)
          @@ <<10, 2>> :> Str(T_EJ)
          @@ <<10, 18>> :> Str(T_OBS)
          @@ <<10, 19>> :> Str(T_OBS)
          @@ <<11, 1>> :> (IF kind = "sin" THEN Flt(5) ELSE Num(2))
          @@ <<11, 2>> :> Str(T_EJ)
          @@ <<29, 1>> :> Str(T_FIRMA)
          @@ <<31, 2>> :> Str(T_FIRMA)
          @@ <<33, 17>> :> Str(T_NOTA)
          @@ <<34, 1>> :> Str(T_NOTA)
          @@ <<35, 1>> :> Str(T_NOTA),
          {<<1, 2>>, <<1, 3>>, <<31, 3>>, <<31, 4>>},
          {<<1, 1>>, <<31, 2>>})

\* gestores: kind "std" has the notice in column A of row FilaAviso, merged
\* over A:C; "plano" has it unmerged; "sin" has no notice. The rows from 3 to
\* the notice hold example records; the phrase "Persona que solicita" is below the notice.
TplGestores(kind) ==
    Sheet(   <<1, 1>> :> Str(T_NOTA)
          @@ <<2, 2>> :> Str(T_CURP)
          @@ <<3, 1>> :> Str(T_EJ)
          @@ <<3, 2>> :> Str(T_EJ)
          @@ <<3, 16>> :> Str(T_OBS)
          @@ <<FilaAviso - 1, 2>> :> Str(T_EJ)
          @@ <<FilaAviso, 1>> :> Str(IF kind = "sin" THEN T_NOTA ELSE KW_IMPORTANTE)
          @@ <<FilaAviso + 2, 2>> :> Str(T_SOLICITA)
          @@ <<FilaAviso + 3, 1>> :> Str(T_NOTA),
          {<<1, 2>>} \cup
          (IF kind = "std" THEN {<<FilaAviso, 2>>, <<FilaAviso, 3>>} ELSE {}),
          {<<1, 1>>} \cup (IF kind = "std" THEN {<<FilaAviso, 1>>} ELSE {}))

Plantillas == { [m |-> "std", g |-> "std"],
                [m |-> "sin", g |-> "plano"],
                [m |-> "may", g |-> "sin"] }

\* An output file on disk (or a download buffer)
Ausente == [exists |-> FALSE]
Archivo(ws) == [exists |-> TRUE, ws |-> ws]

\* Workbook.save then load_workbook: a cell holding "" is written without a
\* value and is read back as None; merged ranges are kept.
Guardar(ws) ==
    [ws EXCEPT !.cells = [k \in {k \in DOMAIN ws.cells : ws.cells[k] # Str(VACIO)}
                            |-> ws.cells[k]]]

-----------------------------------------------------------------------------
(* GestorExcel.__init__ (console) and __init__/_cargar_libros (web).         *)
(* ok = FALSE: an exception left the constructor (a MergedCell at B29).      *)

\* Mutant: the clean step is run on the output files too
InitConsole_limpiaSalida(t, g, om, og) ==
    LET wm0 == _limpiar_plantilla(IF om.exists THEN om.ws ELSE TplMachote(t.m),
                                  KW_EJEMPLO)
        wg0 == _limpiar_plantilla(IF og.exists THEN og.ws ELSE TplGestores(t.g),
                                  KW_IMPORTANTE)
        wm == SetCell(wm0, FILA_GESTOR, COL_GESTOR, Str(g))
        wg == _firmar_gestores(wg0, g, FALSE)
    IN IF IsMerged(wm0, FILA_GESTOR, COL_GESTOR)
       THEN [ok |-> FALSE, gestor |-> g, wm |-> wm0, wg |-> wg0, rm |-> 0, rg |-> 0]
       ELSE [ok |-> TRUE, gestor |-> g, wm |-> wm, wg |-> wg,
             rm |-> _find_next_row(wm, MACHOTE_COL_CHECK, MACHOTE_START, FALSE),
             rg |-> _find_next_row(wg, GESTORES_COL_CHECK, GESTORES_START, FALSE)]

InitConsole(t, g, om, og) ==
    LET wm0 == IF om.exists THEN om.ws
               ELSE _limpiar_plantilla(TplMachote(t.m), KW_EJEMPLO)
        wg0 == IF og.exists THEN og.ws
               ELSE _limpiar_plantilla(TplGestores(t.g), KW_IMPORTANTE)
        wm == SetCell(wm0, FILA_GESTOR, COL_GESTOR, Str(g))
        wg == _firmar_gestores(wg0, g, FALSE)
    IN IF IsMerged(wm0, FILA_GESTOR, COL_GESTOR)
       THEN [ok |-> FALSE, gestor |-> g, wm |-> wm0, wg |-> wg0, rm |-> 0, rg |-> 0]
       ELSE [ok |-> TRUE, gestor |-> g, wm |-> wm, wg |-> wg,
             rm |-> _find_next_row(wm, MACHOTE_COL_CHECK, MACHOTE_START, FALSE),
             rg |-> _find_next_row(wg, GESTORES_COL_CHECK, GESTORES_START, FALSE)]

InitWeb(t, gestor_nombre) ==
    LET g == Upper(gestor_nombre)
        wm0 == _limpiar_machote(TplMachote(t.m))
        wm == SetCell(wm0, FILA_GESTOR, COL_GESTOR, Str(g))
        wg == _firmar_gestores(_limpiar_gestores(TplGestores(t.g)), g, TRUE)
    IN IF IsMerged(wm0, FILA_GESTOR, COL_GESTOR)
       THEN [ok |-> FALSE, gestor |-> g, wm |-> wm0, wg |-> wg, rm |-> 0, rg |-> 0]
       ELSE [ok |-> TRUE, gestor |-> g, wm |-> wm, wg |-> wg,
             rm |-> _find_next_row(wm, MACHOTE_COL_CHECK, MACHOTE_START, TRUE),
             rg |-> _find_next_row(wg, GESTORES_COL_CHECK, GESTORES_START, TRUE)]

-----------------------------------------------------------------------------
(* Alumno and Documento. al.docs is a Python dict: an insertion-ordered      *)
(* sequence of Documento records, at most one per clave.                     *)

\* conf_docs, in its order
CLAVES == <<"cert_sec", "acta", "curp_doc", "fotos_inf", "fotos_cred",
            "fotos_tit", "ine", "comp_dom", "ine_tutor">>
FOTOS == <<"fotos_inf", "fotos_cred", "fotos_tit">>
\* conf_docs without the keys in handled_photos
SIN_FOTOS == <<"cert_sec", "acta", "curp_doc", "ine", "comp_dom", "ine_tutor">>
NombreArchivo(k) ==
    CASE k = "cert_sec" -> "CERTIFICADO_BACH"
      [] k = "acta" -> "ACTA_NACIMIENTO"
      [] k = "curp_doc" -> "CURP"
      [] k = "fotos_inf" -> "FOTOS_INFANTIL"
      [] k = "fotos_cred" -> "FOTOS_CREDENCIAL"
      [] k = "fotos_tit" -> "FOTOS_TITULO"
      [] k = "ine" -> "INE"
      [] k = "comp_dom" -> "COMP_DOMICILIO"
      [] k = "ine_tutor" -> "INE_TUTOR"

\* A file name stem f"{prefix}_{base}": pre lists the prefixes put before base
Stem(pre, base) == [pre |-> pre, base |-> base]
Ruta(dir, stem, ext) == [dir |-> dir, stem |-> stem, ext |-> ext]
SinRuta == [sin |-> TRUE]

Documento(clave, nombre_archivo, ruta_origen, presentado) ==
    [clave |-> clave, nombre_archivo |-> nombre_archivo,
     ruta_origen |-> ruta_origen, presentado |-> presentado]

HasDoc(a, k) == \E i \in DOMAIN a.docs : a.docs[i].clave = k
DocOf(a, k) == a.docs[CHOOSE i \in DOMAIN a.docs : a.docs[i].clave = k]

\* al.docs[k] = d
PutDoc(docs, d) ==
    IF \E i \in DOMAIN docs : docs[i].clave = d.clave
    THEN [i \in DOMAIN docs |-> IF docs[i].clave = d.clave THEN d ELSE docs[i]]
    ELSE Append(docs, d)

\* Alumno.nombre_completo
NombreCompleto(a) ==
    Strip(a.nombre \o <<" ">> \o a.primer_apellido \o <<" ">> \o a.segundo_apellido)

\* Alumno.get_excel_mark (console) and Alumno.mark (web)
Mark(a, k) == IF HasDoc(a, k) /\ DocOf(a, k).presentado THEN EQUIS ELSE VACIO

\* The "or" chain of any_fotos reads al.docs[k] until one is presentado:
\* TRUE when a clave it reads is missing (KeyError)
AnyFotosKeyError(a) ==
    \/ ~HasDoc(a, "fotos_inf")
    \/ /\ ~DocOf(a, "fotos_inf").presentado
       /\ \/ ~HasDoc(a, "fotos_cred")
          \/ /\ ~DocOf(a, "fotos_cred").presentado
             /\ ~HasDoc(a, "fotos_tit")
AnyFotos(a) == \E i \in DOMAIN FOTOS : HasDoc(a, FOTOS[i]) /\ DocOf(a, FOTOS[i]).presentado

\* Mutant: only an int counts as numeric
SiguienteNum_soloInt(prev) == IF IsInt(prev) THEN prev.int + 1 ELSE 1

\* num = int(prev) + 1 if isinstance(prev, (int, float)) else 1
SiguienteNum(prev) == IF IsInt(prev) \/ IsFlt(prev) THEN IntOf(prev) + 1 ELSE 1

SiNo(b) == Str(IF b THEN EQUIS ELSE VACIO)

RowDataMachote(ws, r, a) ==
    << Num(SiguienteNum(Cell(ws, r - 1, 1))),
       Str(a.curp), Str(NombreCompleto(a)), Str(a.ciclo_escolar),
       Str(a.fecha_terminacion),
       Str(Mark(a, "acta")), Str(Mark(a, "cert_sec")), Str(Mark(a, "curp_doc")),
       Str(Mark(a, "fotos_inf")), Str(Mark(a, "fotos_cred")),
       Str(Mark(a, "fotos_tit")), Str(Mark(a, "ine")), Str(Mark(a, "comp_dom")),
       Str(a.carrera), SiNo(a.solicita_certificado),
       SiNo(a.solicita_autenticacion), Str(a.promedio) >>

RowDataGestores(a) ==
    << Str(a.carrera), Str(a.curp), Str(a.nombre), Str(a.primer_apellido),
       Str(a.segundo_apellido), Str(a.institucion), Str(a.fecha_terminacion),
       Str(Mark(a, "cert_sec")), Str(Mark(a, "acta")), SiNo(AnyFotos(a)),
       Str(Mark(a, "ine")), Str(Mark(a, "comp_dom")), Str(Mark(a, "ine_tutor")),
       Str(a.ciclo_escolar), Str(a.promedio) >>

\* Mutant: the agent pointer is not advanced
agregar_alumno_sinAvance(wm, wg, rm, rg, a) ==
    LET w1 == WriteRow(wm, rm, RowDataMachote(wm, rm, a))
        w2 == WriteRow(wg, rg, RowDataGestores(a))
    IN IF ~w1.ok
       THEN [ok |-> FALSE, wm |-> w1.ws, wg |-> wg, rm |-> rm, rg |-> rg]
       ELSE IF AnyFotosKeyError(a)
       THEN [ok |-> FALSE, wm |-> w1.ws, wg |-> wg, rm |-> rm + 1, rg |-> rg]
       ELSE IF ~w2.ok
       THEN [ok |-> FALSE, wm |-> w1.ws, wg |-> w2.ws, rm |-> rm + 1, rg |-> rg]
       ELSE [ok |-> TRUE, wm |-> w1.ws, wg |-> w2.ws, rm |-> rm + 1, rg |-> rg]

\* GestorExcel.agregar_alumno, the same in both variants. ok = FALSE: an
\* exception left the call; what it had written and incremented stays.
agregar_alumno(wm, wg, rm, rg, a) ==
    LET w1 == WriteRow(wm, rm, RowDataMachote(wm, rm, a))
        w2 == WriteRow(wg, rg, RowDataGestores(a))
    IN IF ~w1.ok
       THEN [ok |-> FALSE, wm |-> w1.ws, wg |-> wg, rm |-> rm, rg |-> rg]
       ELSE IF AnyFotosKeyError(a)
       THEN [ok |-> FALSE, wm |-> w1.ws, wg |-> wg, rm |-> rm + 1, rg |-> rg]
       ELSE IF ~w2.ok
       THEN [ok |-> FALSE, wm |-> w1.ws, wg |-> w2.ws, rm |-> rm + 1, rg |-> rg]
       ELSE [ok |-> TRUE, wm |-> w1.ws, wg |-> w2.ws, rm |-> rm + 1, rg |-> rg + 1]

-----------------------------------------------------------------------------
(* Files. A file's content is a PDF with its pages, an image, other bytes    *)
(* (a damaged PDF, a .docx) or no bytes at all.                              *)

Pag(src, de, n) == [src |-> src, de |-> de, n |-> n]
Pdf(pages) == [k |-> "pdf", pages |-> pages]
Img(src) == [k |-> "img", pages |-> <<Pag(src, VACIO, 1)>>]
Otro == [k |-> "otro", pages |-> << >>]
SinBytes == [k |-> "vacio", pages |-> << >>]

Exists(f, p) == p # SinRuta /\ p \in DOMAIN f
FsPut(f, p, c) == [q \in (DOMAIN f) \cup {p} |-> IF q = p THEN c ELSE f[q]]
FsDel(f, p) == [q \in (DOMAIN f) \ {p} |-> f[q]]

IMG_EXTS == {"png", "jpg", "jpeg", "bmp", "tif", "tiff"}

DIR_USUARIO == << <<"u">> >>
BASE_ALUMNOS_DIR == << <<"A","L","U","M","N","O","S","_","U","A","N">> >>

\* The files the operator can select or upload
RutaUsuario(base, ext) == Ruta(DIR_USUARIO, Stem(<< >>, base), ext)
U_CERT == RutaUsuario("cert", "pdf")
U_FOTOS == RutaUsuario("fotos", "pdf")
U_MALO == RutaUsuario("malo", "pdf")
U_FOTO == RutaUsuario("foto", "png")
U_NOTA == RutaUsuario("nota", "docx")
U_PERDIDO == RutaUsuario("perdido", "pdf")
FsUsuario ==
       U_CERT :> Pdf(<<Pag("cert", VACIO, 1), Pag("cert", VACIO, 2)>>)
    @@ U_FOTOS :> Pdf(<<Pag("fotos", VACIO, 1)>>)
    @@ U_MALO :> Otro
    @@ U_FOTO :> Img("foto")
    @@ U_NOTA :> Otro

\* safe_copy(src, dest)
safe_copy(f, src, dest) ==
    IF src = SinRuta \/ ~Exists(f, src) THEN f
    ELSE IF src = dest THEN f
    ELSE FsPut(f, dest, f[src])

\* convertir_imagen_a_pdf(imagen_path, pdf_path): Image.open raises on a
\* missing file and on bytes that are no image
convertir_imagen_a_pdf(f, imagen_path, pdf_path) ==
    IF Exists(f, imagen_path) /\ f[imagen_path].k = "img"
    THEN [fs |-> FsPut(f, pdf_path, Pdf(f[imagen_path].pages)), ret |-> TRUE]
    ELSE [fs |-> f, ret |-> FALSE]

\* Mutant: the evidence copy is made before the guard
ProcesarConsole_copiaAntes(f, doc, carpeta) ==
    IF doc.ruta_origen = SinRuta
    THEN [fs |-> f, ret |-> SinRuta, ok |-> TRUE]
    ELSE LET archivo_final == Ruta(carpeta, doc.nombre_archivo, doc.ruta_origen.ext)
         IN [fs |-> safe_copy(f, doc.ruta_origen, archivo_final),
             ret |-> SinRuta, ok |-> TRUE]

\* console: procesar_documento_a_pdf(doc, carpeta_destino)
ProcesarConsole(f, doc, carpeta) ==
    IF ~doc.presentado \/ doc.ruta_origen = SinRuta
    THEN [fs |-> f, ret |-> SinRuta, ok |-> TRUE]
    ELSE LET ext == doc.ruta_origen.ext
             archivo_final == Ruta(carpeta, doc.nombre_archivo, ext)
             f1 == safe_copy(f, doc.ruta_origen, archivo_final)
             pdf_final == Ruta(carpeta, doc.nombre_archivo, "pdf")
             conv == convertir_imagen_a_pdf(f1, doc.ruta_origen, pdf_final)
         IN IF ext = "pdf"
            THEN [fs |-> safe_copy(f1, doc.ruta_origen, pdf_final),
                  ret |-> pdf_final, ok |-> TRUE]
            ELSE IF ext \in IMG_EXTS /\ conv.ret
            THEN [fs |-> conv.fs, ret |-> pdf_final, ok |-> TRUE]
            ELSE [fs |-> f1, ret |-> SinRuta, ok |-> TRUE]

\* web: procesar_documento_a_pdf(doc, carpeta_destino); read_bytes raises
\* FileNotFoundError on a missing source (ok = FALSE)
ProcesarWeb(f, doc, carpeta) ==
    IF ~doc.presentado \/ doc.ruta_origen = SinRuta
    THEN [fs |-> f, ret |-> SinRuta, ok |-> TRUE]
    ELSE IF ~Exists(f, doc.ruta_origen)
    THEN [fs |-> f, ret |-> SinRuta, ok |-> FALSE]
    ELSE LET ext == doc.ruta_origen.ext
             destino_original == Ruta(carpeta, doc.nombre_archivo, ext)
             f1 == FsPut(f, destino_original, f[doc.ruta_origen])
             destino_pdf == Ruta(carpeta, doc.nombre_archivo, "pdf")
             conv == convertir_imagen_a_pdf(f1, doc.ruta_origen, destino_pdf)
         IN IF ext = "pdf"
            THEN [fs |-> FsPut(f1, destino_pdf, f1[doc.ruta_origen]),
                  ret |-> destino_pdf, ok |-> TRUE]
            ELSE IF ext \in IMG_EXTS /\ conv.ret
            THEN [fs |-> conv.fs, ret |-> destino_pdf, ok |-> TRUE]
            ELSE [fs |-> f1, ret |-> SinRuta, ok |-> TRUE]

procesar_documento_a_pdf(web, f, doc, carpeta) ==
    IF web THEN ProcesarWeb(f, doc, carpeta) ELSE ProcesarConsole(f, doc, carpeta)

\* merger.append(str(pdf)) succeeds on a file that is a PDF
Appends(f, p) == Exists(f, p) /\ f[p].k = "pdf"

\* Mutant: the first input that fails to append ends the merge
RECURSIVE MergedPages_aborta(_, _)
MergedPages_aborta(f, lista) ==
    IF lista = << >> \/ ~Appends(f, Head(lista)) THEN << >>
    ELSE f[Head(lista)].pages \o MergedPages_aborta(f, Tail(lista))

\* The pages merger holds after the loop "for pdf in lista_pdfs: try:
\* merger.append(str(pdf)) except Exception: (warning)"
RECURSIVE MergedPages(_, _)
MergedPages(f, lista) ==
    IF lista = << >> THEN << >>
    ELSE (IF Appends(f, Head(lista)) THEN f[Head(lista)].pages ELSE << >>)
         \o MergedPages(f, Tail(lista))

\* unir_pdfs_en_uno(lista_pdfs, salida). console: always writes salida and
\* returns None; web: returns False and writes nothing when no page was merged
unir_pdfs_en_uno(web, f, lista_pdfs, salida) ==
    LET pages == MergedPages(f, lista_pdfs)
    IN IF web
       THEN IF Len(pages) = 0
            THEN [fs |-> f, ret |-> "False"]
            ELSE [fs |-> FsPut(f, salida, Pdf(pages)), ret |-> "True"]
       ELSE [fs |-> FsPut(f, salida, Pdf(pages)), ret |-> "None"]

\* generar_machote_pdf_alumno(al, carpeta, gestor): the cover page
RutaPortada(a, carpeta) == Ruta(carpeta, Stem(<<a.curp>>, "MACHOTE_TRAMITES"), "pdf")
generar_machote_pdf_alumno(f, a, carpeta) ==
    FsPut(f, RutaPortada(a, carpeta), Pdf(<<Pag("portada", a.curp, 1)>>))

\* carpeta_al = BASE_ALUMNOS_DIR / f"{al.curp}_{al.nombre_completo.replace(' ', '_')}"
Carpeta(a) == BASE_ALUMNOS_DIR \o <<a.curp \o <<"_">> \o Replace_(NombreCompleto(a))>>

-----------------------------------------------------------------------------
(* What the operator types, ticks and selects for one student *)

Entrega(presentado, archivo) == [presentado |-> presentado, archivo |-> archivo]
NoEntrega == Entrega(FALSE, SinRuta)
Nada == [k \in {CLAVES[i] : i \in DOMAIN CLAVES} |-> NoEntrega]

Entrada(curp, nombre, primer_apellido, fotos_pack, pack, docs) ==
    [curp |-> curp, nombre |-> nombre, primer_apellido |-> primer_apellido,
     segundo_apellido |-> VACIO, carrera |-> <<"l","d">>, institucion |-> <<"i">>,
     fecha_terminacion |-> <<"f">>, ciclo_escolar |-> <<"z">>, promedio |-> <<"9">>,
     solicita_certificado |-> TRUE, solicita_autenticacion |-> FALSE,
     fotos_pack |-> fotos_pack, pack |-> pack, docs |-> docs]

IsFoto(k) == \E i \in DOMAIN FOTOS : FOTOS[i] = k

\* console: main, steps 1 and 2. input_clean strips and upper-cases every
\* text; with the pack the three photo entries are put into al.docs first.
\* (info is the web's uploaded_info; pack is a ghost: the pack file selected.)
AlumnoConsole(e) ==
    LET T(x) == Upper(Strip(x))
        resto == IF e.fotos_pack THEN SIN_FOTOS ELSE CLAVES
        packDocs == IF e.fotos_pack
                    THEN [i \in DOMAIN FOTOS |->
                            Documento(FOTOS[i], Stem(<< >>, NombreArchivo(FOTOS[i])),
                                      e.pack, TRUE)]
                    ELSE << >>
        restoDocs == [i \in DOMAIN resto |->
                        Documento(resto[i], Stem(<< >>, NombreArchivo(resto[i])),
                                  IF e.docs[resto[i]].presentado
                                  THEN e.docs[resto[i]].archivo ELSE SinRuta,
                                  e.docs[resto[i]].presentado)]
    IN [curp |-> T(e.curp), carrera |-> T(e.carrera), nombre |-> T(e.nombre),
        primer_apellido |-> T(e.primer_apellido),
        segundo_apellido |-> T(e.segundo_apellido),
        institucion |-> T(e.institucion),
        fecha_terminacion |-> T(e.fecha_terminacion),
        ciclo_escolar |-> T(e.ciclo_escolar), promedio |-> T(e.promedio),
        solicita_certificado |-> e.solicita_certificado,
        solicita_autenticacion |-> e.solicita_autenticacion,
        docs |-> packDocs \o restoDocs, info |-> Nada,
        pack |-> IF e.fotos_pack THEN e.pack ELSE SinRuta]

\* web: the widgets of one script run. uploaded_info[key] = (entregado, archivo);
\* widget names the file_uploader the upload object comes from
UploadedInfo(e) ==
    [k \in DOMAIN e.docs |->
        IF e.fotos_pack /\ IsFoto(k)
        THEN [presentado |-> e.pack # SinRuta, archivo |-> e.pack,
              widget |-> "fotos_pack"]
        ELSE [presentado |-> e.docs[k].presentado,
              archivo |-> IF e.docs[k].presentado THEN e.docs[k].archivo ELSE SinRuta,
              widget |-> k]]
AlumnoWeb(e) ==
    [curp |-> Strip(Upper(e.curp)), carrera |-> Strip(Upper(e.carrera)),
     nombre |-> Strip(Upper(e.nombre)),
     primer_apellido |-> Strip(Upper(e.primer_apellido)),
     segundo_apellido |-> Strip(Upper(e.segundo_apellido)),
     institucion |-> Strip(Upper(e.institucion)),
     fecha_terminacion |-> Strip(e.fecha_terminacion),
     ciclo_escolar |-> Strip(Upper(e.ciclo_escolar)), promedio |-> Strip(e.promedio),
     solicita_certificado |-> e.solicita_certificado,
     solicita_autenticacion |-> e.solicita_autenticacion,
     docs |-> << >>, info |-> UploadedInfo(e),
     pack |-> IF e.fotos_pack THEN e.pack ELSE SinRuta]

\* web: st.file_uploader(type=["pdf", "png", "jpg", "jpeg"]) of an existing file
UPLOAD_EXTS == {"pdf", "png", "jpg", "jpeg"}
Subible(p) ==
    IF p = SinRuta THEN TRUE ELSE p.ext \in UPLOAD_EXTS /\ p \in DOMAIN FsUsuario
Subibles(e) == Subible(e.pack) /\ \A k \in DOMAIN e.docs : Subible(e.docs[k].archivo)

\* web: "if not curp or not nombre or not p_ap"
Obligatorios(a) == a.curp # VACIO /\ a.nombre # VACIO /\ a.primer_apellido # VACIO

\* console: main, step C. Every document gets the CURP prefix and is
\* normalised; a returned path not yet in pdfs_alumno is appended to it.
RECURSIVE DocsConsole(_, _, _, _, _)
DocsConsole(f, a, i, pdfs, carpeta) ==
    IF i > Len(a.docs) THEN [fs |-> f, al |-> a, pdfs |-> pdfs, ok |-> TRUE]
    ELSE LET d0 == a.docs[i]
             d == [d0 EXCEPT !.nombre_archivo =
                     Stem(<<a.curp>> \o d0.nombre_archivo.pre, d0.nombre_archivo.base)]
             r == procesar_documento_a_pdf(FALSE, f, d, carpeta)
             nuevo == r.ret # SinRuta /\ ~(\E j \in DOMAIN pdfs : pdfs[j] = r.ret)
         IN DocsConsole(r.fs, [a EXCEPT !.docs[i] = d], i + 1,
                        IF nuevo THEN Append(pdfs, r.ret) ELSE pdfs, carpeta)

\* web: the loop over conf_docs of the "generar" branch. archivo.read() gives
\* the bytes of an upload the first time it is read in the run and b"" after:
\* the pack is one upload object shared by the three photo keys.
RECURSIVE DocsWeb(_, _, _, _, _, _)
DocsWeb(f, a, i, pdfs, carpeta, leidos) ==
    IF i > Len(CLAVES) THEN [fs |-> f, al |-> a, pdfs |-> pdfs, ok |-> TRUE]
    ELSE LET key == CLAVES[i]
             inf == a.info[key]
             ruta_tmp == IF inf.archivo = SinRuta THEN SinRuta
                         ELSE Ruta(carpeta, Stem(<<a.curp>>, NombreArchivo(key)),
                                   inf.archivo.ext)
             bytes == IF inf.widget \in leidos THEN SinBytes ELSE FsUsuario[inf.archivo]
             f1 == IF inf.archivo = SinRuta THEN f ELSE FsPut(f, ruta_tmp, bytes)
             d == Documento(key, Stem(<<a.curp>>, NombreArchivo(key)), ruta_tmp,
                            inf.presentado)
             r == procesar_documento_a_pdf(TRUE, f1, d, carpeta)
             nuevo == r.ret # SinRuta /\ ~(\E j \in DOMAIN pdfs : pdfs[j] = r.ret)
             a1 == [a EXCEPT !.docs = PutDoc(a.docs, d)]
         IN IF ~r.ok THEN [fs |-> r.fs, al |-> a1, pdfs |-> pdfs, ok |-> FALSE]
            ELSE DocsWeb(r.fs, a1, i + 1,
                         IF nuevo THEN Append(pdfs, r.ret) ELSE pdfs, carpeta,
                         IF inf.archivo = SinRuta THEN leidos
                         ELSE leidos \cup {inf.widget})

-----------------------------------------------------------------------------
(* The program *)

\* Students captured in one exploration, over all its sessions
MaxAlumnos == 2

EmptyCells == [k \in {} |-> None]
HojaVacia == Sheet(EmptyCells, {}, {})
AlNulo == [nulo |-> TRUE]
Web == variant = "web"

RutaCompleto(a) ==
    Ruta(Carpeta(a),
         Stem(<<a.curp>>, IF Web THEN "EXPEDIENTE_COMPLETO" ELSE "COMPLETO_OFICIAL"),
         "pdf")
RUTA_GLOBAL == Ruta(BASE_ALUMNOS_DIR, Stem(<< >>, "PDF_GLOBAL_TODOS_LOS_ALUMNOS"), "pdf")
\* ruta_global.with_suffix(".bak.pdf")
RUTA_BAK == Ruta(BASE_ALUMNOS_DIR, Stem(<< >>, "PDF_GLOBAL_TODOS_LOS_ALUMNOS.bak"), "pdf")

HistInit ==
    [n |-> 0,                 \* students captured so far
     hechos |-> 0,            \* agregar_alumno calls completed by this engine
     fallos |-> 0,            \* agregar_alumno calls that raised in this engine
     ult_m |-> 0, ult_g |-> 0,    \* last row appended by the saved sessions
     ses_m |-> 0, ses_g |-> 0,    \* last row appended by this engine
     de_salida |-> FALSE,     \* this engine loaded the output files
     limpio |-> FALSE,        \* this engine ran the clean step
     limpio_m |-> HojaVacia,  \* the main sheet as the load (and clean) left it
     limpio_g |-> HojaVacia,  \* the agent sheet as the load (and clean) left it
     exp |-> << >>,           \* pages of each archive listed in todos
     global_antes |-> << >>,  \* pages of the global archive before this Cierre
     habia_global |-> FALSE]  \* a global archive existed before this Cierre

Init ==
    /\ variant \in {"console", "web"}
    /\ gestor_sidebar = VACIO
    /\ tpl \in Plantillas
    /\ pc = "off"
    /\ gestor = VACIO
    /\ ws_machote = HojaVacia /\ ws_gestores = HojaVacia
    /\ row_m = 0 /\ row_g = 0 /\ row_m0 = 0 /\ row_g0 = 0
    /\ out_machote = Ausente /\ out_gestores = Ausente
    /\ al = AlNulo /\ pdfs_alumno = << >> /\ todos = << >>
    /\ fs = FsUsuario
    /\ ultimo = "init"
    /\ hist = HistInit

\* The process ends (or the browser session does): what was in memory is gone
Apagado ==
    /\ pc' = "off"
    /\ gestor' = VACIO
    /\ ws_machote' = HojaVacia /\ ws_gestores' = HojaVacia
    /\ row_m' = 0 /\ row_g' = 0 /\ row_m0' = 0 /\ row_g0' = 0
    /\ al' = AlNulo /\ pdfs_alumno' = << >> /\ todos' = << >>

\* console: main down to GestorExcel(gestor); web: the script run that finds no
\* engine in st.session_state and a non-blank operator name
Arrancar(g) ==
    /\ pc = "off"
    /\ Web => Strip(g) # VACIO
    /\ LET e == IF Web THEN InitWeb(tpl, g)
                ELSE InitConsole(tpl, Upper(Strip(g)), out_machote, out_gestores)
           lm == IF Web THEN _limpiar_machote(TplMachote(tpl.m))
                 ELSE IF out_machote.exists THEN out_machote.ws
                 ELSE _limpiar_plantilla(TplMachote(tpl.m), KW_EJEMPLO)
           lg == IF Web THEN _limpiar_gestores(TplGestores(tpl.g))
                 ELSE IF out_gestores.exists THEN out_gestores.ws
                 ELSE _limpiar_plantilla(TplGestores(tpl.g), KW_IMPORTANTE)
       IN IF e.ok
          THEN /\ pc' = "listo"
               /\ gestor' = e.gestor
               /\ ws_machote' = e.wm /\ ws_gestores' = e.wg
               /\ row_m' = e.rm /\ row_g' = e.rg
               /\ row_m0' = e.rm /\ row_g0' = e.rg
               /\ al' = AlNulo /\ pdfs_alumno' = << >> /\ todos' = << >>
               /\ ultimo' = "arrancar"
               /\ hist' = [hist EXCEPT !.hechos = 0, !.fallos = 0,
                              !.ses_m = 0, !.ses_g = 0, !.exp = << >>,
                              !.de_salida = ~Web /\ out_machote.exists,
                              !.limpio = Web \/ ~out_machote.exists,
                              !.limpio_m = lm, !.limpio_g = lg]
          ELSE /\ Apagado
               /\ ultimo' = "excepcion"
               /\ hist' = hist
    /\ gestor_sidebar' = IF Web THEN g ELSE VACIO
    /\ UNCHANGED <<variant, tpl, out_machote, out_gestores, fs>>

\* console: the prompts of one student; web: a run with "generar" pressed and
\* the obligatory fields filled
Capturar(e) ==
    /\ pc = "listo"
    /\ Web => (Subibles(e) /\ Obligatorios(AlumnoWeb(e)))
    /\ al' = IF Web THEN AlumnoWeb(e) ELSE AlumnoConsole(e)
    /\ pc' = "procesar"
    /\ pdfs_alumno' = << >>
    /\ ultimo' = "capturar"
    /\ hist' = [hist EXCEPT !.n = @ + 1]
    /\ UNCHANGED <<variant, gestor_sidebar, tpl, gestor, ws_machote, ws_gestores, row_m, row_g,
                   row_m0, row_g0, out_machote, out_gestores, todos, fs>>

\* web: "generar" pressed with CURP, Nombre or Primer Apellido empty: st.error
Rechazar(e) ==
    /\ pc = "listo"
    /\ Web
    /\ Subibles(e)
    /\ ~Obligatorios(AlumnoWeb(e))
    /\ ultimo' = "rechazo"
    /\ UNCHANGED <<variant, gestor_sidebar,
                   tpl, pc, gestor, ws_machote, ws_gestores, row_m, row_g,
                   row_m0, row_g0, out_machote, out_gestores, al, pdfs_alumno,
                   todos, fs, hist>>

\* Mutant: the report rows are appended before the documents are normalised
Procesar_agregaAntes ==
    /\ pc = "procesar"
    /\ LET carpeta == Carpeta(al)
           r == IF Web THEN DocsWeb(fs, al, 1, << >>, carpeta, {})
                ELSE DocsConsole(generar_machote_pdf_alumno(fs, al, carpeta), al, 1,
                                 <<RutaPortada(al, carpeta)>>, carpeta)
           a == agregar_alumno(ws_machote, ws_gestores, row_m, row_g, al)
       IN /\ fs' = r.fs
          /\ ws_machote' = a.wm /\ ws_gestores' = a.wg
          /\ row_m' = a.rm /\ row_g' = a.rg
          /\ IF r.ok
             THEN /\ al' = r.al /\ pdfs_alumno' = r.pdfs /\ pc' = "unir"
                  /\ ultimo' = "procesar"
             ELSE /\ al' = AlNulo /\ pdfs_alumno' = << >> /\ pc' = "listo"
                  /\ ultimo' = "excepcion"
    /\ UNCHANGED <<variant, gestor_sidebar,
                   tpl, gestor, row_m0, row_g0, out_machote, out_gestores,
                   todos, hist>>

\* console: main, steps A to C; web: the loop over conf_docs
Procesar ==
    /\ pc = "procesar"
    /\ LET carpeta == Carpeta(al)
           r == IF Web THEN DocsWeb(fs, al, 1, << >>, carpeta, {})
                ELSE DocsConsole(generar_machote_pdf_alumno(fs, al, carpeta), al, 1,
                                 <<RutaPortada(al, carpeta)>>, carpeta)
       IN /\ fs' = r.fs
          /\ IF r.ok
             THEN /\ al' = r.al /\ pdfs_alumno' = r.pdfs /\ pc' = "unir"
                  /\ ultimo' = "procesar"
             ELSE /\ al' = AlNulo /\ pdfs_alumno' = << >> /\ pc' = "listo"
                  /\ ultimo' = "excepcion"
    /\ UNCHANGED <<variant, gestor_sidebar, tpl, gestor, ws_machote, ws_gestores, row_m, row_g,
                   row_m0, row_g0, out_machote, out_gestores, todos, hist>>

\* console: main, step D; web: "Generar PDF completo del alumno"
Unir ==
    /\ pc = "unir"
    /\ LET salida == RutaCompleto(al)
           u == unir_pdfs_en_uno(Web, fs, pdfs_alumno, salida)
       IN IF pdfs_alumno # << >>
          THEN /\ fs' = u.fs
               /\ todos' = IF Web THEN todos ELSE Append(todos, salida)
               /\ hist' = IF Web THEN hist
                          ELSE [hist EXCEPT !.exp = Append(@, MergedPages(fs, pdfs_alumno))]
          ELSE UNCHANGED <<fs, todos, hist>>
    /\ pc' = "agregar"
    /\ ultimo' = "unir"
    /\ UNCHANGED <<variant, gestor_sidebar, tpl, gestor, ws_machote, ws_gestores, row_m, row_g,
                   row_m0, row_g0, out_machote, out_gestores, al, pdfs_alumno>>

\* console: main, step E, where an exception ends the process; web:
\* engine.agregar_alumno and get_excels_as_bytes, where an exception ends the
\* run and leaves the engine in st.session_state
Agregar ==
    /\ pc = "agregar"
    /\ LET r == agregar_alumno(ws_machote, ws_gestores, row_m, row_g, al)
           h == [hist EXCEPT !.hechos = IF r.ok THEN @ + 1 ELSE @,
                             !.fallos = IF r.ok THEN @ ELSE @ + 1,
                             !.ses_m = IF r.rm # row_m THEN row_m ELSE @,
                             !.ses_g = IF r.rg # row_g THEN row_g ELSE @]
       IN IF r.ok \/ Web
          THEN /\ ws_machote' = r.wm /\ ws_gestores' = r.wg
               /\ row_m' = r.rm /\ row_g' = r.rg
               /\ pc' = IF Web THEN "listo" ELSE "otro"
               /\ out_machote' = IF Web /\ r.ok THEN Archivo(Guardar(r.wm))
                                 ELSE out_machote
               /\ out_gestores' = IF Web /\ r.ok THEN Archivo(Guardar(r.wg))
                                  ELSE out_gestores
               /\ al' = AlNulo /\ pdfs_alumno' = << >>
               /\ ultimo' = IF r.ok THEN "agregar" ELSE "excepcion"
               /\ hist' = h
               /\ UNCHANGED <<gestor, row_m0, row_g0, todos>>
          ELSE /\ Apagado
               /\ ultimo' = "excepcion"
               /\ hist' = hist
               /\ UNCHANGED <<out_machote, out_gestores>>
    /\ UNCHANGED <<variant, gestor_sidebar, tpl, fs>>

\* console: "¿Capturar otro alumno?" answered S
OtroSi ==
    /\ pc = "otro"
    /\ pc' = "listo"
    /\ ultimo' = "otro"
    /\ UNCHANGED <<variant, gestor_sidebar, tpl, gestor, ws_machote, ws_gestores, row_m, row_g,
                   row_m0, row_g0, out_machote, out_gestores, al, pdfs_alumno,
                   todos, fs, hist>>

\* console: answered N: guardar_todo, then the global archive. The old global
\* archive is renamed to the .bak.pdf name and merged first. Path.rename onto
\* an existing backup replaces it on POSIX and raises FileExistsError on
\* Windows (nt): the process then ends with the global archive not rebuilt.
Cierre ==
    /\ pc = "otro"
    /\ out_machote' = Archivo(Guardar(ws_machote))
    /\ out_gestores' = Archivo(Guardar(ws_gestores))
    /\ \E nt \in BOOLEAN :
         LET habia == Exists(fs, RUTA_GLOBAL)
             choca == nt /\ habia /\ Exists(fs, RUTA_BAK)
             f1 == IF habia THEN FsPut(FsDel(fs, RUTA_GLOBAL), RUTA_BAK, fs[RUTA_GLOBAL])
                   ELSE fs
             lista_final == (IF habia THEN <<RUTA_BAK>> ELSE << >>) \o todos
         IN /\ fs' = IF todos = << >> \/ choca THEN fs
                     ELSE unir_pdfs_en_uno(FALSE, f1, lista_final, RUTA_GLOBAL).fs
            /\ hist' = [hist EXCEPT
                          !.ult_m = IF hist.ses_m # 0 THEN hist.ses_m ELSE @,
                          !.ult_g = IF hist.ses_g # 0 THEN hist.ses_g ELSE @,
                          !.habia_global = habia,
                          !.global_antes = IF habia THEN fs[RUTA_GLOBAL].pages ELSE << >>]
    /\ Apagado
    /\ ultimo' = "cierre"
    /\ UNCHANGED <<variant, gestor_sidebar, tpl>>

\* web: the browser session ends; st.session_state is dropped
CerrarSesion ==
    /\ pc = "listo"
    /\ Web
    /\ Apagado
    /\ out_machote' = Ausente /\ out_gestores' = Ausente
    /\ ultimo' = "cerrar"
    /\ gestor_sidebar' = VACIO
    /\ UNCHANGED <<variant, tpl, fs, hist>>

-----------------------------------------------------------------------------
(* Inputs and specifications *)

G_LU == <<"l","u">>
G_MA == <<"m","a">>
C_1 == <<"c","1">>
N_ANA == <<"a","n","a">>
N_PEREZ == <<"p","e","r","e","z">>

\* Report-centred inputs: with and without CURP, with and without marks
ConMarcas == [Nada EXCEPT !["cert_sec"] = Entrega(TRUE, SinRuta),
                          !["ine_tutor"] = Entrega(TRUE, SinRuta)]
Entradas ==
    { Entrada(c, N_ANA, N_PEREZ, FALSE, SinRuta, Nada) : c \in {VACIO, C_1} } \cup
    { Entrada(c, N_ANA, N_PEREZ, TRUE, SinRuta, ConMarcas) : c \in {VACIO, C_1} } \cup
    { Entrada(C_1, VACIO, N_PEREZ, FALSE, SinRuta, Nada) }

\* A session is started, and another student announced, only while the
\* exploration has students left
Quedan == hist.n < MaxAlumnos

Next ==
    \/ \E g \in {G_LU, G_MA} : Quedan /\ Arrancar(g)
    \/ \E e \in Entradas : Quedan /\ Capturar(e)
    \/ \E e \in Entradas : Rechazar(e)
    \/ Procesar
    \/ Unir
    \/ Agregar
    \/ Quedan /\ OtroSi
    \/ Cierre
    \/ CerrarSesion

Spec == Init /\ [][Next]_vars

-----------------------------------------------------------------------------
(* Claims about the report engine *)

Running == pc # "off"

\* C1: starting from a freshly initialised GestorExcel, after N completed
\* agregar_alumno calls (and no call that raised) row_m and row_g are each
\* exactly N greater than their values right after initialisation.
C1_PunterosAvanzanN ==
    (Running /\ hist.fallos = 0) =>
        (row_m = row_m0 + hist.hechos /\ row_g = row_g0 + hist.hechos)
C1_Witness ==
    Running /\ hist.fallos = 0 /\ hist.hechos = 2
            /\ row_m = row_m0 + 2 /\ row_g = row_g0 + 2

\* The written columns of row r are all empty and none is a MergedCell
FilaLibre(ws, r, n) == \A c \in 1..n : Cell(ws, r, c) = None /\ ~IsMerged(ws, r, c)
Cambiadas(w1, w2) ==
    {k \in (DOMAIN w1.cells) \cup (DOMAIN w2.cells) :
        Cell(w1, k[1], k[2]) # Cell(w2, k[1], k[2])}

\* C2: agregar_alumno never writes into a row that already holds a value in
\* one of the written columns nor into a cell of a merged region: every cell
\* it changes lies in a row that was fully empty and unmerged.
C2_NuncaSobrescribe ==
    [][(pc = "agregar" /\ pc' # "off") =>
          /\ \A k \in Cambiadas(ws_machote, ws_machote') :
                FilaLibre(ws_machote, k[1], Len(RowDataMachote(ws_machote, row_m, al)))
          /\ \A k \in Cambiadas(ws_gestores, ws_gestores') :
                FilaLibre(ws_gestores, k[1], Len(RowDataGestores(al)))]_vars

\* C3: console: a session that re-opens the saved outputs resumes, on each
\* sheet, at the row right after the last row an earlier session appended.
C3_ReanudaDespues ==
    (~Web /\ pc = "listo" /\ ultimo = "arrancar" /\ hist.de_salida) =>
        /\ hist.ult_m # 0 => row_m = hist.ult_m + 1
        /\ hist.ult_g # 0 => row_g = hist.ult_g + 1

\* Twice the number a numeric cell holds
Mitades(v) == IF IsInt(v) THEN 2 * v.int ELSE v.half
\* The whole number a numeric cell's value is cut to (toward zero)
Entero(v) ==
    LET h == Mitades(v)
    IN IF h >= 0 THEN CHOOSE n \in 0..h : 2 * n <= h /\ h < 2 * n + 2
       ELSE -(CHOOSE n \in 0..(-h) : 2 * n <= -h /\ -h < 2 * n + 2)

\* C4 (as stated): the sequence number agregar_alumno writes in column 1 of
\* the main report is the value in column 1 of the row above plus one when
\* that value is numeric, and 1 otherwise.
C4_Original ==
    [][(pc = "agregar" /\ row_m' = row_m + 1) =>
          LET prev == Cell(ws_machote, row_m - 1, 1)
              num == Cell(ws_machote', row_m, 1)
          IN /\ IsInt(num)
             /\ IF IsInt(prev) \/ IsFlt(prev)
                THEN 2 * num.int = Mitades(prev) + 2
                ELSE num.int = 1]_vars

\* C4 (amended): the sequence number agregar_alumno writes in column 1 of the
\* main report is the value in column 1 of the row above, cut to a whole
\* number, plus one when that value is numeric, and 1 otherwise; the rows
\* appended by one engine are numbered in steps of exactly 1.
C4_NumeroConsecutivo ==
    [][(pc = "agregar" /\ row_m' = row_m + 1) =>
          LET prev == Cell(ws_machote, row_m - 1, 1)
              num == Cell(ws_machote', row_m, 1)
          IN /\ IsInt(num)
             /\ IF IsInt(prev) \/ IsFlt(prev)
                THEN num.int = Entero(prev) + 1
                ELSE num.int = 1
             /\ \A r \in (row_m0' + 1)..(row_m' - 1) :
                   Cell(ws_machote', r, 1) = Num(Cell(ws_machote', r - 1, 1).int + 1)]_vars
C4_Witness ==
    /\ Running /\ tpl.m = "sin" /\ row_m = row_m0 + 2
    /\ Cell(ws_machote, row_m0 - 1, 1) = Flt(5)
    /\ Cell(ws_machote, row_m0, 1) = Num(3)
    /\ Cell(ws_machote, row_m0 + 1, 1) = Num(4)

\* The clean window the cleaning of a sheet is confined to: the main report's
\* is the 25 rows after the marker row, columns 1 to 18, and empty without a
\* marker; the agent report's is rows 3 to the row before the marker, columns
\* 1 to 16 (web, without a marker: to the row before the default limit row).
VentanaMachote(ws) ==
    LET m == IF Web THEN MarcaMachoteWeb(ws) ELSE MarcaConsole(ws, KW_EJEMPLO)
    IN IF m = 0 THEN {} ELSE ((m + 1)..(m + 25)) \X (1..18)
VentanaGestores(ws) ==
    LET m == IF Web THEN MarcaGestoresWeb(ws) ELSE MarcaConsole(ws, KW_IMPORTANTE)
    IN IF m # 0 THEN (3..(m - 1)) \X (1..16)
       ELSE IF Web THEN (3..(LIMIT_ROW_WEB - 1)) \X (1..16) ELSE {}
\* The cells of the merged regions of a sheet
Region(ws) == ws.merged \cup ws.anchors
Intacta(antes, despues, ventana) ==
    /\ despues.merged = antes.merged
    /\ \A k \in (DOMAIN antes.cells) \cup (DOMAIN despues.cells) \cup Region(antes) :
          (k \notin ventana \/ k \in Region(antes)) =>
              Cell(despues, k[1], k[2]) = Cell(antes, k[1], k[2])

-----------------------------------------------------------------------------
(* The PDF assembly pipeline: students with documents, one template pair    *)
(* with room for the appends, and a base directory that may already hold a  *)
(* global archive and a backup from earlier sessions.                       *)

\* Students captured in one exploration of the pipeline
MaxAlumnosPdf == 2

C_2 == <<"c","2">>
PlantillaPdf == [m |-> "may", g |-> "sin"]

EntradasPdf ==
    { Entrada(C_1, N_ANA, N_PEREZ, FALSE, SinRuta, Nada),
      Entrada(C_1, N_ANA, N_PEREZ, FALSE, SinRuta,
              [Nada EXCEPT !["cert_sec"] = Entrega(TRUE, U_CERT),
                           !["acta"] = Entrega(TRUE, U_FOTO),
                           !["ine"] = Entrega(TRUE, U_MALO)]),
      Entrada(C_1, N_ANA, N_PEREZ, TRUE, U_FOTOS,
              [Nada EXCEPT !["cert_sec"] = Entrega(TRUE, U_CERT)]),
      Entrada(C_1, N_ANA, N_PEREZ, TRUE, U_FOTO,
              [Nada EXCEPT !["curp_doc"] = Entrega(TRUE, SinRuta)]),
      Entrada(C_1, N_ANA, N_PEREZ, FALSE, SinRuta,
              [Nada EXCEPT !["comp_dom"] = Entrega(TRUE, U_NOTA),
                           !["ine_tutor"] = Entrega(TRUE, U_PERDIDO)]),
      Entrada(C_2, N_ANA, N_PEREZ, FALSE, SinRuta,
              [Nada EXCEPT !["cert_sec"] = Entrega(TRUE, U_CERT)]) }

GlobalViejo == Pdf(<<Pag("global", VACIO, 1)>>)
BakViejo == Pdf(<<Pag("bak", VACIO, 1)>>)
FsConGlobal == FsPut(FsUsuario, RUTA_GLOBAL, GlobalViejo)
FsConBak == FsPut(FsConGlobal, RUTA_BAK, BakViejo)

InitPdf ==
    /\ variant \in {"console", "web"}
    /\ gestor_sidebar = VACIO
    /\ tpl = PlantillaPdf
    /\ pc = "off"
    /\ gestor = VACIO
    /\ ws_machote = HojaVacia /\ ws_gestores = HojaVacia
    /\ row_m = 0 /\ row_g = 0 /\ row_m0 = 0 /\ row_g0 = 0
    /\ out_machote = Ausente /\ out_gestores = Ausente
    /\ al = AlNulo /\ pdfs_alumno = << >> /\ todos = << >>
    /\ fs \in (IF Web THEN {FsUsuario} ELSE {FsUsuario, FsConGlobal, FsConBak})
    /\ ultimo = "init"
    /\ hist = HistInit

QuedanPdf == hist.n < MaxAlumnosPdf

NextPdf ==
    \/ QuedanPdf /\ Arrancar(G_LU)
    \/ \E e \in EntradasPdf : QuedanPdf /\ Capturar(e)
    \/ Procesar
    \/ Unir
    \/ Agregar
    \/ QuedanPdf /\ OtroSi
    \/ Cierre
    \/ CerrarSesion

SpecPdf == InitPdf /\ [][NextPdf]_vars

-----------------------------------------------------------------------------
(* unir_pdfs_en_uno on its own: one call with a list of paths *)

\* Longest list of paths handed to unir_pdfs_en_uno
MaxLista == 2

RutasUnir == {U_CERT, U_FOTOS, U_MALO, U_FOTO, U_PERDIDO}
Listas == UNION {[1..n -> RutasUnir] : n \in 0..MaxLista}
SALIDA == Ruta(BASE_ALUMNOS_DIR, Stem(<< >>, "salida"), "pdf")
SalidaVieja == Pdf(<<Pag("vieja", VACIO, 1)>>)

InitUnir ==
    /\ variant \in {"console", "web"}
    /\ gestor_sidebar = VACIO
    /\ tpl = PlantillaPdf
    /\ pc = "fn"
    /\ gestor = VACIO
    /\ ws_machote = HojaVacia /\ ws_gestores = HojaVacia
    /\ row_m = 0 /\ row_g = 0 /\ row_m0 = 0 /\ row_g0 = 0
    /\ out_machote = Ausente /\ out_gestores = Ausente
    /\ al = AlNulo /\ pdfs_alumno = << >> /\ todos = << >>
    /\ fs \in {FsUsuario, FsPut(FsUsuario, SALIDA, SalidaVieja)}
    /\ ultimo = "init"
    /\ hist = [fs_antes |-> fs]

\* unir_pdfs_en_uno(lista, SALIDA): ultimo keeps what it returned, hist the
\* files before the call, pdfs_alumno the list
LlamarUnir(lista) ==
    /\ pc = "fn"
    /\ LET u == unir_pdfs_en_uno(Web, fs, lista, SALIDA)
       IN fs' = u.fs /\ ultimo' = u.ret
    /\ pc' = "hecho"
    /\ pdfs_alumno' = lista
    /\ hist' = [fs_antes |-> fs]
    /\ UNCHANGED <<variant, gestor_sidebar, tpl, gestor, ws_machote, ws_gestores, row_m, row_g,
                   row_m0, row_g0, out_machote, out_gestores, al, todos>>

NextUnir == \E lista \in Listas : LlamarUnir(lista)

SpecUnir == InitUnir /\ [][NextUnir]_vars

-----------------------------------------------------------------------------
(* Claims about the PDF pipeline *)

\* The pages of the inputs that are PDF files, in list order
RECURSIVE PaginasBuenas(_, _)
PaginasBuenas(f, lista) ==
    IF lista = << >> THEN << >>
    ELSE LET n == Len(lista)
             p == lista[n]
         IN PaginasBuenas(f, SubSeq(lista, 1, n - 1)) \o
            (IF p \in DOMAIN f THEN (IF f[p].k = "pdf" THEN f[p].pages ELSE << >>)
             ELSE << >>)

\* C5: unir_pdfs_en_uno called with an empty list, or with a list none of
\* whose PDFs appends, reports failure to its caller and neither creates nor
\* overwrites the output file, in both variants.
C5_FallaSinEscribir ==
    (pc = "hecho" /\ PaginasBuenas(hist.fs_antes, pdfs_alumno) = << >>) =>
        (ultimo = "False" /\ fs = hist.fs_antes)

\* The entries of pdfs_alumno whose file holds the content of the pack
ConContenido(paginas) ==
    {j \in DOMAIN pdfs_alumno :
        IF pdfs_alumno[j] \in DOMAIN fs THEN fs[pdfs_alumno[j]].pages = paginas
        ELSE FALSE}

\* C6: when one file (a PDF or an image) is given for the three photo
\* categories, its content appears exactly once among the inputs merged into
\* the student's complete-record PDF, in both variants.
C6_PackUnaVez ==
    (pc = "unir" /\ al.pack \in {U_FOTOS, U_FOTO}) =>
        Cardinality(ConContenido(FsUsuario[al.pack].pages)) = 1

\* Position in conf_docs of the category a normalised PDF belongs to
PosClave(p) == CHOOSE i \in DOMAIN CLAVES : NombreArchivo(CLAVES[i]) = p.stem.base

\* C7: console: the list merged into a student's complete-record PDF has the
\* cover page first, then the normalised documents in the order of conf_docs,
\* whether or not the photo pack was chosen.
C7_OrdenFijo ==
    (~Web /\ pc = "unir") =>
        /\ pdfs_alumno # << >> /\ pdfs_alumno[1] = RutaPortada(al, Carpeta(al))
        /\ \A i, j \in 2..Len(pdfs_alumno) :
              i < j => PosClave(pdfs_alumno[i]) < PosClave(pdfs_alumno[j])

\* The pages of the archives a session produced, in processing order
RECURSIVE Aplanar(_)
Aplanar(ss) == IF ss = << >> THEN << >> ELSE Head(ss) \o Aplanar(Tail(ss))

\* C8: console: at the end of a session that produced student archives, an
\* existing global archive has become the backup file, and the new global
\* archive is the old one's pages followed by the pages of each archive the
\* session produced, in processing order (P + A + B pages).
C8_GlobalAcumula ==
    (~Web /\ ultimo = "cierre" /\ hist.exp # << >>) =>
        /\ hist.habia_global =>
              (RUTA_BAK \in DOMAIN fs /\ fs[RUTA_BAK].pages = hist.global_antes)
        /\ RUTA_GLOBAL \in DOMAIN fs
        /\ fs[RUTA_GLOBAL].pages = hist.global_antes \o Aplanar(hist.exp)

\* C10: unir_pdfs_en_uno does not abort on an input that fails to append:
\* the call returns, and the output it writes holds the pages of exactly the
\* inputs that appended, in list order.
C10_OmiteFallidos ==
    pc = "hecho" =>
        LET pags == PaginasBuenas(hist.fs_antes, pdfs_alumno)
        IN IF ultimo = "False"
           THEN pags = << >> /\ fs = hist.fs_antes
           ELSE /\ ultimo \in {"True", "None"}
                /\ fs = FsPut(hist.fs_antes, SALIDA, Pdf(pags))
C10_Witness ==
    /\ pc = "hecho" /\ pdfs_alumno = <<U_MALO, U_CERT>>
    /\ fs[SALIDA] = Pdf(FsUsuario[U_CERT].pages)

-----------------------------------------------------------------------------
(* procesar_documento_a_pdf on its own: one call on one Documento *)

CarpetaProc == BASE_ALUMNOS_DIR \o << <<"d">> >>
StemsProc == {Stem(<<C_1>>, "INE"), Stem(<<C_1>>, "ACTA_NACIMIENTO")}
OrigenesProc == {SinRuta, U_CERT, U_FOTOS, U_MALO, U_FOTO, U_NOTA, U_PERDIDO}
DocsProc ==
    {Documento("ine", st, o, p) : st \in StemsProc, o \in OrigenesProc, p \in BOOLEAN}
\* The destination folder may already hold a normalised PDF of that name
FsConDestino ==
    FsPut(FsUsuario, Ruta(CarpetaProc, Stem(<<C_1>>, "INE"), "pdf"), SalidaVieja)

InitProc ==
    /\ variant \in {"console", "web"}
    /\ gestor_sidebar = VACIO
    /\ tpl = PlantillaPdf
    /\ pc = "fn"
    /\ gestor = VACIO
    /\ ws_machote = HojaVacia /\ ws_gestores = HojaVacia
    /\ row_m = 0 /\ row_g = 0 /\ row_m0 = 0 /\ row_g0 = 0
    /\ out_machote = Ausente /\ out_gestores = Ausente
    /\ al = AlNulo /\ pdfs_alumno = << >> /\ todos = << >>
    /\ fs \in {FsUsuario, FsConDestino}
    /\ ultimo = "init"
    /\ hist = [fs_antes |-> fs, ret |-> SinRuta]

\* procesar_documento_a_pdf(doc, CarpetaProc): al keeps the Documento, hist
\* the files before the call and the value returned, ultimo whether it raised
LlamarProcesar(doc) ==
    /\ pc = "fn"
    /\ LET r == procesar_documento_a_pdf(Web, fs, doc, CarpetaProc)
       IN /\ fs' = r.fs
          /\ hist' = [fs_antes |-> fs, ret |-> r.ret]
          /\ ultimo' = IF r.ok THEN "return" ELSE "excepcion"
    /\ pc' = "hecho"
    /\ al' = doc
    /\ UNCHANGED <<variant, gestor_sidebar, tpl, gestor, ws_machote, ws_gestores, row_m, row_g,
                   row_m0, row_g0, out_machote, out_gestores, pdfs_alumno, todos>>

NextProc == \E doc \in DocsProc : LlamarProcesar(doc)

SpecProc == InitProc /\ [][NextProc]_vars

\* C11: procesar_documento_a_pdf called on a document whose presentado flag
\* is false, or whose ruta_origen is absent, returns None and creates or
\* modifies no file.
C11_NoOpSinEntrega ==
    (pc = "hecho" /\ (~al.presentado \/ al.ruta_origen = SinRuta)) =>
        (ultimo = "return" /\ hist.ret = SinRuta /\ fs = hist.fs_antes)
C11_Witness ==
    /\ pc = "hecho" /\ ~al.presentado /\ al.ruta_origen = U_CERT
    /\ hist.ret = SinRuta /\ fs = hist.fs_antes

\* A source the normaliser can turn into a PDF: an existing file with the
\* extension .pdf or one of the listed raster formats
FuenteLegible(f, p) ==
    IF p = SinRuta THEN FALSE
    ELSE p \in DOMAIN f /\ p.ext \in ({"pdf"} \cup IMG_EXTS)

\* C12: console: after a student's documents were processed, every
\* normalised-PDF path in the merge list belongs to a document that was
\* submitted and whose source is an existing file of a supported type.
C12_RutaSoloSiLegible ==
    (~Web /\ pc = "unir") =>
        \A j \in 2..Len(pdfs_alumno) :
            \E i \in DOMAIN al.docs :
                /\ pdfs_alumno[j] = Ruta(Carpeta(al), al.docs[i].nombre_archivo, "pdf")
                /\ al.docs[i].presentado
                /\ FuenteLegible(fs, al.docs[i].ruta_origen)

-----------------------------------------------------------------------------
(* Claims about the capture loop and the engine's life cycle *)

\* C13: a student whose CURP, given name or first surname is empty is
\* rejected in both variants: no step writes files for it, appends a row for
\* it or moves a row pointer.
C13_RechazaIncompletos ==
    [][(al # AlNulo /\ pc \in {"procesar", "unir", "agregar"} /\ pc' # "off") =>
          (Obligatorios(al) \/
             (fs' = fs /\ row_m' = row_m /\ row_g' = row_g
              /\ ws_machote' = ws_machote /\ ws_gestores' = ws_gestores))]_vars

\* The agent report holds the stamp "Gestor: g" in some cell
Firmado(ws, g) == \E k \in DOMAIN ws.cells : ws.cells[k] = Str(PRE_GESTOR \o g)

\* C14: once the engine is initialised with operator name N, from the
\* templates or from output files an earlier session stamped, B29 of the main
\* report holds N and the agent report holds the stamp "Gestor: N".
C14_SelloDelGestor ==
    (pc = "listo" /\ ultimo = "arrancar") =>
        /\ Cell(ws_machote, FILA_GESTOR, COL_GESTOR) = Str(gestor)
        /\ Firmado(ws_gestores, gestor)

-----------------------------------------------------------------------------
(* agregar_alumno on its own: one call on a freshly loaded engine, with an    *)
(* Alumno whose docs holds any part of the categories.                        *)

ClavesAgr == <<"fotos_inf", "fotos_cred", "fotos_tit", "ine">>
EstadosDoc == {"falta", "no", "si"}

\* al.docs with the categories est says, in the order of conf_docs
DocsAgr(est) ==
    LET Esta(k) == est[k] # "falta"
        ks == SelectSeq(ClavesAgr, Esta)
    IN [i \in DOMAIN ks |->
          Documento(ks[i], Stem(<<C_1>>, NombreArchivo(ks[i])), SinRuta,
                    est[ks[i]] = "si")]

AlumnosAgr ==
    { [AlumnoConsole(Entrada(C_1, N_ANA, N_PEREZ, FALSE, SinRuta, Nada))
         EXCEPT !.docs = DocsAgr(est)] :
      est \in [{ClavesAgr[i] : i \in DOMAIN ClavesAgr} -> EstadosDoc] }

InitAgr ==
    /\ variant \in {"console", "web"}
    /\ gestor_sidebar = IF Web THEN G_LU ELSE VACIO
    /\ tpl = PlantillaPdf
    /\ pc = "fn"
    /\ gestor = G_LU
    /\ LET e == IF Web THEN InitWeb(tpl, G_LU)
                ELSE InitConsole(tpl, G_LU, Ausente, Ausente)
       IN /\ ws_machote = e.wm /\ ws_gestores = e.wg
          /\ row_m = e.rm /\ row_g = e.rg
          /\ row_m0 = e.rm /\ row_g0 = e.rg
    /\ out_machote = Ausente /\ out_gestores = Ausente
    /\ al \in AlumnosAgr
    /\ pdfs_alumno = << >> /\ todos = << >>
    /\ fs = FsUsuario
    /\ ultimo = "init"
    /\ hist = HistInit

LlamarAgregar ==
    /\ pc = "fn"
    /\ LET r == agregar_alumno(ws_machote, ws_gestores, row_m, row_g, al)
       IN /\ ws_machote' = r.wm /\ ws_gestores' = r.wg
          /\ row_m' = r.rm /\ row_g' = r.rg
          /\ ultimo' = IF r.ok THEN "return" ELSE "excepcion"
    /\ pc' = "hecho"
    /\ UNCHANGED <<variant, gestor_sidebar,
                   tpl, gestor, row_m0, row_g0, out_machote, out_gestores,
                   al, pdfs_alumno, todos, fs, hist>>

NextAgr == LlamarAgregar

SpecAgr == InitAgr /\ [][NextAgr]_vars

\* The mark the reports are to show for category k
MarcaDe(a, k) ==
    Str(IF \E i \in DOMAIN a.docs : a.docs[i].clave = k /\ a.docs[i].presentado
        THEN EQUIS ELSE VACIO)

\* C15: after agregar_alumno on any Alumno, whatever categories its docs
\* holds, the call has returned, the photo and INE marks of the main row and
\* the INE mark of the agent row are "X" exactly for the categories that are
\* in docs with presentado true, and the combined photo mark of the agent row
\* is "X" exactly when one of the three photo categories is.
C15_MarcasSinError ==
    pc = "hecho" =>
      /\ ultimo = "return"
      /\ Cell(ws_machote, row_m0, 9) = MarcaDe(al, "fotos_inf")
      /\ Cell(ws_machote, row_m0, 10) = MarcaDe(al, "fotos_cred")
      /\ Cell(ws_machote, row_m0, 11) = MarcaDe(al, "fotos_tit")
      /\ Cell(ws_machote, row_m0, 12) = MarcaDe(al, "ine")
      /\ Cell(ws_gestores, row_g0, 11) = MarcaDe(al, "ine")
      /\ Cell(ws_gestores, row_g0, 10) =
           Str(IF \E i \in DOMAIN FOTOS :
                    MarcaDe(al, FOTOS[i]) = Str(EQUIS)
               THEN EQUIS ELSE VACIO)

-----------------------------------------------------------------------------
(* Claims about the order of the steps of one student *)

\* C16: while an engine lives, the report sheets and the row pointers change
\* only in the append step, which is taken after the student's documents were
\* normalised and the archive merge step was passed; the next student is
\* captured only when no student is in process; the steps before the append
\* change no sheet, no pointer and no saved report, so a student whose
\* processing stops there leaves the reports as they were.
C16_AgregarAlFinal ==
    [][ /\ ( /\ pc # "off" /\ pc' # "off"
             /\ <<ws_machote, ws_gestores, row_m, row_g>>' #
                  <<ws_machote, ws_gestores, row_m, row_g>> )
           => (pc = "agregar" /\ ultimo = "unir" /\ al # AlNulo)
        /\ pc = "unir" => ultimo = "procesar"
        /\ pc = "procesar" => ultimo = "capturar"
        /\ hist'.n # hist.n => (pc = "listo" /\ al = AlNulo)
        /\ pc \in {"procesar", "unir"}
           => /\ pc' # "off"
              /\ <<ws_machote, ws_gestores, row_m, row_g, out_machote, out_gestores>>' =
                   <<ws_machote, ws_gestores, row_m, row_g, out_machote, out_gestores>>
      ]_vars

\* Two students appended by one engine, each after its own merge step
C16_Witness ==
    /\ ultimo = "agregar" /\ hist.hechos = 2
    /\ row_m = row_m0 + 2 /\ row_g = row_g0 + 2

-----------------------------------------------------------------------------
(* Claims about the clean step *)

\* The engine has just been built from the templates and the main template
\* (the agent template) has a marker row
RecienLimpio == pc = "listo" /\ ultimo = "arrancar" /\ hist.limpio
FilaMarcaM ==
    IF Web THEN MarcaMachoteWeb(TplMachote(tpl.m))
    ELSE MarcaConsole(TplMachote(tpl.m), KW_EJEMPLO)
FilaMarcaG ==
    IF Web THEN MarcaGestoresWeb(TplGestores(tpl.g))
    ELSE MarcaConsole(TplGestores(tpl.g), KW_IMPORTANTE)

\* Of the cells of the template antes that are no MergedCell, the ones in
\* bloque are None in despues and the others have kept their value
LimpiaExacta(antes, despues, bloque) ==
    \A k \in DOMAIN antes.cells :
       k \notin antes.merged =>
          IF k \in bloque THEN Cell(despues, k[1], k[2]) = None
          ELSE Cell(despues, k[1], k[2]) = antes.cells[k]

TodasLasColumnas(ws) == 1..MaxColumn(ws)

\* C17 as stated: with the marker at row m the clean step of the main report
\* nulls every non-merged cell of rows m+1 to m+25 and of no other row, and
\* the clean step of the agent report every non-merged cell of rows 3 to the
\* row before its marker and of no other row.
C17_Original ==
    RecienLimpio =>
      /\ FilaMarcaM # 0 =>
           LimpiaExacta(TplMachote(tpl.m), hist.limpio_m,
                        ((FilaMarcaM + 1)..(FilaMarcaM + 25))
                           \X TodasLasColumnas(TplMachote(tpl.m)))
      /\ FilaMarcaG # 0 =>
           LimpiaExacta(TplGestores(tpl.g), hist.limpio_g,
                        (3..(FilaMarcaG - 1)) \X TodasLasColumnas(TplGestores(tpl.g)))

\* C17 (amended): with the marker at row m the clean step of the main report
\* nulls every cell that is no MergedCell in rows m+1 to m+19 and columns 1 to
\* 18 (console), in rows m+1 to m+24 and columns 1 to 17 (web), and no other
\* cell; the clean step of the agent report every cell that is no MergedCell
\* in rows 3 to the row before its marker and columns 1 to 16 (console), 1 to
\* 15 (web), and no other cell.
C17_VentanaLimpia ==
    RecienLimpio =>
      /\ FilaMarcaM # 0 =>
           LimpiaExacta(TplMachote(tpl.m), hist.limpio_m,
                        IF Web THEN ((FilaMarcaM + 1)..(FilaMarcaM + 24)) \X (1..17)
                        ELSE ((FilaMarcaM + 1)..(FilaMarcaM + 19)) \X (1..18))
      /\ FilaMarcaG # 0 =>
           LimpiaExacta(TplGestores(tpl.g), hist.limpio_g,
                        (3..(FilaMarcaG - 1)) \X (IF Web THEN 1..15 ELSE 1..16))

\* A web engine built from templates with both markers: the example records
\* are gone, the note in the last row of the window too, and the note in the
\* 25th row after the marker is still there
C17_Witness ==
    /\ RecienLimpio /\ Web /\ FilaMarcaM = 9 /\ FilaMarcaG = FilaAviso
    /\ Cell(hist.limpio_m, 10, 2) = None
    /\ Cell(hist.limpio_m, FilaMarcaM + 24, 17) = None
    /\ Cell(hist.limpio_m, FilaMarcaM + 25, 1) = Str(T_NOTA)
    /\ Cell(hist.limpio_g, 3, 2) = None
    /\ Cell(hist.limpio_g, 3, 16) = Str(T_OBS)

-----------------------------------------------------------------------------
(* Claims about the engine's life cycle *)

\* The first row from start on whose cell in column col is free, as the scan
\* of the variant reads "free"
PrimeraLibre(ws, col, start) ==
    LET Libre(r) == IF Web THEN ~NotBlank(Cell(ws, r, col))
                    ELSE ~Truthy(Cell(ws, r, col))
    IN CHOOSE r \in start..(MaxRow(ws) + 1) :
          Libre(r) /\ \A q \in start..(r - 1) : ~Libre(q)

\* The cells of antes and despues that differ
Distintas(antes, despues) ==
    {k \in DOMAIN antes.cells \cup DOMAIN despues.cells :
        Cell(antes, k[1], k[2]) # Cell(despues, k[1], k[2])}

\* C18: the load that builds an engine leaves each pointer at the first free
\* row of its sheet; a load from the output files keeps every cell of them
\* (no clean step), changing only the operator's cell of the main report and
\* at most a stamp cell of the agent report; while the engine lives no cell
\* outside the row under a pointer changes (no second clean step), a pointer
\* moves by one row at a time and only in the append step (no new scan), and
\* the append step is taken only by a loaded engine.
C18_CicloDeVida ==
    [][ /\ (pc = "off" /\ pc' = "listo") =>
             /\ row_m' = PrimeraLibre(ws_machote', MACHOTE_COL_CHECK, MACHOTE_START)
             /\ row_g' = PrimeraLibre(ws_gestores', GESTORES_COL_CHECK, GESTORES_START)
             /\ hist'.limpio = ~hist'.de_salida
             /\ hist'.de_salida =>
                  /\ out_machote.exists /\ out_gestores.exists
                  /\ Distintas(out_machote.ws, ws_machote')
                        \subseteq {<<FILA_GESTOR, COL_GESTOR>>}
                  /\ \A k \in Distintas(out_gestores.ws, ws_gestores') :
                        Cell(ws_gestores', k[1], k[2]) = Str(PRE_GESTOR \o gestor')
        /\ (pc # "off" /\ pc' # "off") =>
             /\ \A k \in Distintas(ws_machote, ws_machote') : k[1] = row_m
             /\ \A k \in Distintas(ws_gestores, ws_gestores') : k[1] = row_g
             /\ row_m' \in {row_m, row_m + 1} /\ row_g' \in {row_g, row_g + 1}
             /\ (row_m' # row_m \/ row_g' # row_g) => pc = "agregar"
             /\ hist'.limpio = hist.limpio
        /\ pc = "agregar" => (row_m0 >= MACHOTE_START /\ row_g0 >= GESTORES_START)
      ]_vars

\* An engine loaded from the output files of an earlier session that hold a
\* student's rows, with its pointers after them, has appended one more
C18_Witness ==
    /\ hist.de_salida /\ ~hist.limpio /\ ultimo = "agregar"
    /\ row_m0 > MACHOTE_START /\ row_m = row_m0 + 1
    /\ Cell(ws_machote, row_m0 - 1, 2) = Str(Upper(C_1))
    /\ Cell(ws_machote, row_m0, 2) = Str(Upper(C_1))

-----------------------------------------------------------------------------
(* A report that is nearly full: earlier appends have taken the pointer of   *)
(* the main report to the row above the operator's row. In the console the   *)
(* reports are the saved output files of earlier sessions; in the web they   *)
(* are in the engine of a session that is under way.                         *)

\* The engine e after appending a until the main pointer is at row hasta
RECURSIVE Llenar(_, _, _)
Llenar(e, a, hasta) ==
    IF e.rm >= hasta \/ ~e.ok THEN e
    ELSE Llenar(agregar_alumno(e.wm, e.wg, e.rm, e.rg, a), a, hasta)

AlumnoPrevio == AlumnoConsole(Entrada(C_2, N_ANA, N_PEREZ, FALSE, SinRuta, Nada))

MotorNuevo(web) ==
    IF web THEN InitWeb(PlantillaPdf, G_LU)
    ELSE InitConsole(PlantillaPdf, Upper(G_LU), Ausente, Ausente)
MotorLleno(web) == Llenar(MotorNuevo(web), AlumnoPrevio, FILA_GESTOR - 1)

InitLleno ==
    /\ variant \in {"console", "web"}
    /\ gestor_sidebar = IF Web THEN G_LU ELSE VACIO
    /\ tpl = PlantillaPdf
    /\ al = AlNulo /\ pdfs_alumno = << >> /\ todos = << >>
    /\ fs = FsUsuario
    /\ ultimo = "init"
    /\ LET e0 == MotorNuevo(Web)
           e == MotorLleno(Web)
       IN IF Web
          THEN /\ pc = "listo"
               /\ gestor = e0.gestor
               /\ ws_machote = e.wm /\ ws_gestores = e.wg
               /\ row_m = e.rm /\ row_g = e.rg
               /\ row_m0 = e0.rm /\ row_g0 = e0.rg
               /\ out_machote = Archivo(Guardar(e.wm))
               /\ out_gestores = Archivo(Guardar(e.wg))
               /\ hist = [HistInit EXCEPT !.hechos = e.rm - e0.rm,
                                          !.ses_m = e.rm - 1, !.ses_g = e.rg - 1,
                                          !.limpio = TRUE,
                                          !.limpio_m = _limpiar_machote(TplMachote(tpl.m)),
                                          !.limpio_g = _limpiar_gestores(TplGestores(tpl.g))]
          ELSE /\ pc = "off"
               /\ gestor = VACIO
               /\ ws_machote = HojaVacia /\ ws_gestores = HojaVacia
               /\ row_m = 0 /\ row_g = 0 /\ row_m0 = 0 /\ row_g0 = 0
               /\ out_machote = Archivo(Guardar(e.wm))
               /\ out_gestores = Archivo(Guardar(e.wg))
               /\ hist = [HistInit EXCEPT !.ult_m = e.rm - 1, !.ult_g = e.rg - 1]

SpecLleno == InitLleno /\ [][Next]_vars

\* C19: whenever an engine is loaded, whatever it has appended and however
\* many times the reports were saved and opened again, cell B29 of the main
\* report holds the operator's name.
C19_SelloPermanece ==
    pc # "off" => Cell(ws_machote, FILA_GESTOR, COL_GESTOR) = Str(gestor)

-----------------------------------------------------------------------------
(* Claims about the append across the two sheets *)

\* C20: in every state of a loaded engine, after any calls of agregar_alumno
\* that returned or raised, the main pointer has advanced from its value at
\* load by as many rows as the agent pointer has from its own.
C20_TodoONada ==
    pc # "off" => row_m - row_m0 = row_g - row_g0

-----------------------------------------------------------------------------
(* The web session with the operator's name edited between the students     *)

\* web: a script run in which the text of "Nombre del Gestor" has been changed
\* to another non-blank name while st.session_state holds an engine: the name
\* is read, st.session_state["gestor"] is set, and the engine stays as it is
EditarGestor(g) ==
    /\ Web
    /\ pc = "listo"
    /\ Strip(g) # VACIO
    /\ g # gestor_sidebar
    /\ gestor_sidebar' = g
    /\ ultimo' = "editar"
    /\ UNCHANGED <<variant, tpl, pc, gestor, ws_machote, ws_gestores, row_m, row_g,
                   row_m0, row_g0, out_machote, out_gestores, al, pdfs_alumno,
                   todos, fs, hist>>

InitSidebar == Init /\ Web

NextSidebar ==
    \/ \E g \in {G_LU, G_MA} : Quedan /\ Arrancar(g)
    \/ \E g \in {G_LU, G_MA} : EditarGestor(g)
    \/ \E e \in Entradas : Quedan /\ Capturar(e)
    \/ \E e \in Entradas : Rechazar(e)
    \/ Procesar
    \/ Unir
    \/ Agregar
    \/ CerrarSesion

SpecSidebar == InitSidebar /\ [][NextSidebar]_vars

\* The names of the stamps "Gestor: ..." a sheet holds
Sellos(ws) ==
    {ws.cells[k] : k \in {q \in DOMAIN ws.cells :
                             IsStr(ws.cells[q]) /\ StartsWith(ws.cells[q].str, PRE_GESTOR)}}

\* C21: in the web, the workbooks a generation returns carry the operator's
\* name that is in the sidebar at that generation: cell B29 of the main
\* report holds it and every stamp of the agent report names it.
C21_SelloDelMomento ==
    (Web /\ ultimo = "agregar") =>
       LET nombre == Upper(Strip(gestor_sidebar))
       IN /\ out_machote.exists /\ out_gestores.exists
          /\ Cell(out_machote.ws, FILA_GESTOR, COL_GESTOR) = Str(nombre)
          /\ Sellos(out_gestores.ws) \subseteq {Str(PRE_GESTOR \o nombre)}

====
